---- MODULE Spec2Model ----
(***************************************************************************)
(* The reactive game-state pipeline of rxjs-snake (src/src/index.ts; the   *)
(* keyCode variant src/unnamed/part_000 wires the same graph).             *)
(*                                                                         *)
(* Every macrotask of the single-threaded event loop is one action: a      *)
(* timer tick of the current interval source, an animation frame, a        *)
(* keydown event, a click event.  An action carries the whole synchronous  *)
(* cascade the event triggers through the subscribed operators.            *)
(*                                                                         *)
(* game.util and constants are imported by index.ts but are not part of    *)
(* the sources at hand; move, eat, isGameOver, incrementSnakeSpeed,        *)
(* nextDirection, generateSnake, generateApples and the configuration      *)
(* constants are written from their description in spec.md.                *)
(***************************************************************************)
EXTENDS Integers, Sequences, FiniteSets

\* ---------------------------------------------------------------- bounds
\* Number of timer ticks explored in one run.
MaxTicks == 3

\* ------------------------------------------------- configuration constants
\* ./constants is not among the sources.  The grid and the starting length are
\* scaled down so that walls, food and the snake's own body are all within
\* MaxTicks moves of every start; the interval step makes the floor reachable.
COLS == 3
ROWS == 3
SNAKE_LENGTH == 3
APPLE_COUNT == 1
POINTS_PER_APPLE == 1
SPEED_STEP == 100
MIN_SPEED == 50
InitialSpeed == 150

\* ------------------------------------------------------------ value types
Point2D(px, py) == [x |-> px, y |-> py]

Cells == {Point2D(cx, cy) : cx \in 0..(COLS - 1), cy \in 0..(ROWS - 1)}

\* An object literal of a direction table: the unit vector, and obj, the table
\* that holds the literal.  Two literals are the same object (===) only when
\* they are the same entry of the same table.
Literal(table, px, py) == [x |-> px, y |-> py, obj |-> table]

\* The unit vector of a direction object.
vec(d) == Point2D(d.x, d.y)

\* DIRECTIONS: key name -> unit vector
DIRECTIONS ==
  [ArrowLeft  |-> Literal("DIRECTIONS", -1, 0),
   ArrowRight |-> Literal("DIRECTIONS", 1, 0),
   ArrowUp    |-> Literal("DIRECTIONS", 0, -1),
   ArrowDown  |-> Literal("DIRECTIONS", 0, 1)]

\* DIRECTIONS_BUTTON: element id -> unit vector
DIRECTIONS_BUTTON ==
  [left  |-> Literal("DIRECTIONS_BUTTON", -1, 0),
   right |-> Literal("DIRECTIONS_BUTTON", 1, 0),
   up    |-> Literal("DIRECTIONS_BUTTON", 0, -1),
   down  |-> Literal("DIRECTIONS_BUTTON", 0, 1)]

INITIAL_DIRECTION == DIRECTIONS["ArrowDown"]

\* Keys a keydown event may carry: the four arrows, the pause key, another key.
Keys == {"ArrowLeft", "ArrowRight", "ArrowUp", "ArrowDown", " ", "x"}

\* Ids of the element a click may hit: a directional button, an element
\* without id (""), an element with another id.
ElementIds == {"left", "right", "up", "down", "", "game"}

Opposite(d) == Point2D(0 - d.x, 0 - d.y)

Range(s) == {s[i] : i \in DOMAIN s}

\* ------------------------------------------------ game.util (from spec.md)
\* nextDirection(previous, requested): a 180 degree reversal is rejected.
nextDirection(previous, requested) ==
  IF vec(requested) = Opposite(previous) THEN previous ELSE requested

\* move(snake, [direction, snakeLength, pause]): identity when paused, else the
\* new head is prepended and the tail truncated to the target length.
move(snake, args) ==
  LET direction   == args[1]
      snakeLength == args[2]
      pause       == args[3]
      head        == Point2D(snake[1].x + direction.x, snake[1].y + direction.y)
      grown       == <<head>> \o snake
      n           == IF Len(grown) > snakeLength THEN snakeLength ELSE Len(grown)
  IN  IF pause THEN snake ELSE SubSeq(grown, 1, n)

\* Cells a replacement food item may be put on: in the grid, not on the snake,
\* not on the remaining food.
getRandomPosition(apples, snake) == (Cells \ Range(snake)) \ apples

\* eat(apples, snake) with the replacement cell r drawn by getRandomPosition:
\* the food under the head is replaced by r, otherwise the set is unchanged.
eat(apples, snake, r) ==
  IF snake[1] \in apples THEN (apples \ {snake[1]}) \cup {r} ELSE apples

\* isGameOver(scene): head outside the grid or on another snake cell.
isGameOver(scene) ==
  LET head == scene.snake[1]
  IN  \/ head \notin Cells
      \/ \E i \in 2..Len(scene.snake) : scene.snake[i] = head

\* incrementSnakeSpeed(interval): one step faster, floored at the minimum.
incrementSnakeSpeed(speed) ==
  IF speed - SPEED_STEP > MIN_SPEED THEN speed - SPEED_STEP ELSE MIN_SPEED

\* generateSnake(): the snakes it may return, head first: a horizontal run of
\* SNAKE_LENGTH cells along the top row of the grid, head at its right end.
generateSnake ==
  {[i \in 1..SNAKE_LENGTH |-> Point2D(o + SNAKE_LENGTH - i, 0)] :
     o \in 0..(COLS - SNAKE_LENGTH)}

\* generateApples(): the food sets it may return next to the generated snake:
\* APPLE_COUNT distinct cells, none on the snake.
generateApples(snake0) ==
  {a \in SUBSET (Cells \ Range(snake0)) : Cardinality(a) = APPLE_COUNT}

\* ------------------------------------------------------------------ state
VARIABLES
  SPEED,         \* let SPEED: the interval last published on speedSubject
  timers,        \* live inner interval(v) subscriptions of ticks$: [id, period]
  srcCount,      \* number of inner interval sources ticks$ has created
  PAUSE,         \* let PAUSE: the flag pause$ last emitted
  dirAcc,        \* accumulator of scan(nextDirection): <<>> before the first input
  direction,     \* last value direction$ emitted (key of distinctUntilChanged)
  dirOut,        \* what direction$ emitted during the last event: <<>> or <<d>>
  snakeLength,   \* accumulator of snakeLength$ (the target length)
  score,         \* accumulator of score$
  snake,         \* accumulator of scan(move, generateSnake())
  apples,        \* accumulator of scan(eat, generateApples())
  emitted,       \* apples$ has emitted its first value (skip(1) has skipped it)
  scene,         \* latest scene$ value held by game$'s withLatestFrom: <<>> or <<s>>
  sceneLog,      \* the scenes scene$ emitted during the last event, in order
  running,       \* the game$ subscription is open
  rendered,      \* renderScene call made during the last event: <<>> or <<s>>
  gameOverCalls, \* number of renderGameOver calls
  lastEvent,     \* last event handled: tick, frame, pause, direction, ignored
  ticks,         \* number of timer ticks delivered
  unpausedTicks, \* number of ticks delivered while the pause flag was false
  moves,         \* number of ticks that changed the snake
  eaten,         \* number of ticks on which the head landed on a food cell
  tickSrc        \* last tick: id of its source, id of the newest source then

vars ==
  <<SPEED, timers, srcCount, PAUSE, dirAcc, direction, dirOut, snakeLength,
    score, snake, apples, emitted, scene, sceneLog, running, rendered,
    gameOverCalls, lastEvent, ticks, unpausedTicks, moves, eaten, tickSrc>>

Scene(s, a, sc) == [snake |-> s, apples |-> a, score |-> sc]

\* State after the module has been evaluated: appleEaten$ and game$ are
\* subscribed, every startWith / BehaviorSubject seed has been delivered, the
\* first interval(SPEED) is scheduled and nothing has ticked yet.
Init ==
  /\ SPEED = InitialSpeed
  /\ timers = {[id |-> 1, period |-> InitialSpeed]}
  /\ srcCount = 1
  /\ PAUSE = FALSE
  /\ dirAcc = <<>>
  /\ direction = INITIAL_DIRECTION
  /\ dirOut = <<INITIAL_DIRECTION>>
  /\ snakeLength = SNAKE_LENGTH
  /\ score = 0
  /\ snake \in generateSnake
  /\ apples \in generateApples(snake)
  /\ emitted = FALSE
  /\ scene = <<>>
  /\ sceneLog = <<>>
  /\ running = TRUE
  /\ rendered = <<>>
  /\ gameOverCalls = 0
  /\ lastEvent = "init"
  /\ ticks = 0
  /\ unpausedTicks = 0
  /\ moves = 0
  /\ eaten = 0
  /\ tickSrc = [id |-> 0, newest |-> 0]

\* --------------------------------------------------------------- ticks$
\* speedSubject.pipe(switchMap(v => interval(v))): a published interval v
\* unsubscribes the live inner source and subscribes interval(v) as source id.
mergeMap(live, id, v) == live \cup {[id |-> id, period |-> v]}

switchMap(live, id, v) == {[id |-> id, period |-> v]}

withLatestFromDroppingPause == <<direction, snakeLength, FALSE>>

withLatestFromFirstDirection == <<INITIAL_DIRECTION, snakeLength, PAUSE>>

\* withLatestFrom(direction$, snakeLength$, pause$, ...) of snake$: the values
\* a tick is combined with.
withLatestFrom == <<direction, snakeLength, PAUSE>>

combineLatestPartial(had, old, new, scoreEmits, applesEmit) ==
  (IF scoreEmits THEN <<Scene(old.snake, old.apples, new.score)>> ELSE <<>>)
  \o (IF applesEmit THEN <<Scene(old.snake, new.apples, new.score)>> ELSE <<>>)
  \o <<new>>

combineLatestStaleFood(had, old, new, scoreEmits, applesEmit) ==
  <<Scene(new.snake, old.apples, new.score)>>

\* combineLatest(snake$, apples$, score$) during one tick: the scenes emitted, in
\* order.  had: snake$ and apples$ have emitted before this tick; old, new:
\* the latest snake, food and score before and after it.  The score observer
\* runs inside appleEaten$'s tap, before apples$ reaches combineLatest, and
\* snake$ reaches combineLatest last.
combineLatest(had, old, new, scoreEmits, applesEmit) ==
  (IF scoreEmits /\ had
     THEN <<Scene(old.snake, old.apples, new.score)>> ELSE <<>>)
  \o (IF applesEmit /\ had
        THEN <<Scene(old.snake, new.apples, new.score)>> ELSE <<>>)
  \o <<new>>

\* One tick of interval source t, with the whole cascade: snake$ (scan move),
\* apples$ (scan eat, distinctUntilChanged), appleEaten$ (skip(1), tap), the
\* re-entrant speedSubject.next and length$.next, score$ and scene$.  Explored
\* for the first n ticks of a run.
TickWithin(t, n) ==
  /\ t \in timers
  /\ ticks < n
  /\ LET newSnake == move(snake, withLatestFrom)
     IN  \E r \in getRandomPosition(apples, newSnake) :
           LET newApples  == eat(apples, newSnake, r)
               applesEmit == (~emitted) \/ newApples # apples
               appleEaten == applesEmit /\ emitted
               scoreEmits == appleEaten /\ running
               newScore   == IF scoreEmits THEN score + POINTS_PER_APPLE ELSE score
               out        == combineLatest(emitted, Scene(snake, apples, score),
                                           Scene(newSnake, newApples, newScore),
                                           scoreEmits, applesEmit)
           IN  /\ snake' = newSnake
               /\ apples' = newApples
               /\ emitted' = TRUE
               /\ IF appleEaten
                    THEN /\ SPEED' = incrementSnakeSpeed(SPEED)
                         /\ srcCount' = srcCount + 1
                         /\ timers' = switchMap(timers, srcCount + 1,
                                                incrementSnakeSpeed(SPEED))
                         /\ snakeLength' = snakeLength + POINTS_PER_APPLE
                    ELSE UNCHANGED <<SPEED, srcCount, timers, snakeLength>>
               /\ score' = newScore
               /\ IF running
                    THEN /\ sceneLog' = out
                         /\ scene' = <<out[Len(out)]>>
                    ELSE /\ sceneLog' = <<>>
                         /\ scene' = scene
               /\ eaten' = IF newSnake[1] \in apples THEN eaten + 1 ELSE eaten
               /\ moves' = IF newSnake # snake THEN moves + 1 ELSE moves
  /\ ticks' = ticks + 1
  /\ unpausedTicks' = IF PAUSE THEN unpausedTicks ELSE unpausedTicks + 1
  /\ tickSrc' = [id |-> t.id, newest |-> srcCount]
  /\ lastEvent' = "tick"
  /\ dirOut' = <<>>
  /\ rendered' = <<>>
  /\ UNCHANGED <<PAUSE, dirAcc, direction, running, gameOverCalls>>

Tick(t) == TickWithin(t, MaxTicks)

\* ---------------------------------------------------------------- game$
\* One animation frame: withLatestFrom(scene$) drops it while scene$ has not
\* emitted; takeWhile completes (renderGameOver, unsubscribe) on a game-over
\* scene and passes every other scene to renderScene.
takeWhileNever(sc) == TRUE

\* takeWhile(scene => !isGameOver(scene)): the scene is passed on.
takeWhile(sc) == ~isGameOver(sc)

Frame ==
  /\ running
  /\ IF scene = <<>>
       THEN /\ rendered' = <<>>
            /\ UNCHANGED <<running, gameOverCalls>>
       ELSE IF ~takeWhile(scene[1])
              THEN /\ running' = FALSE
                   /\ gameOverCalls' = gameOverCalls + 1
                   /\ rendered' = <<>>
              ELSE /\ rendered' = scene
                   /\ UNCHANGED <<running, gameOverCalls>>
  /\ lastEvent' = "frame"
  /\ dirOut' = <<>>
  /\ sceneLog' = <<>>
  /\ UNCHANGED <<SPEED, timers, srcCount, PAUSE, dirAcc, direction, snakeLength,
                 score, snake, apples, emitted, scene, ticks, unpausedTicks,
                 moves, eaten, tickSrc>>

\* ------------------------------------------------------ pause$, direction$
\* filter(!!direction), scan(nextDirection), distinctUntilChanged on one mapped
\* input d (<<>> when the map returned undefined).  distinctUntilChanged
\* compares with ===, that is, the objects.
directionInput(d) ==
  IF d = <<>>
    THEN /\ dirOut' = <<>>
         /\ UNCHANGED <<dirAcc, direction>>
    ELSE LET acc == IF dirAcc = <<>> THEN d[1] ELSE nextDirection(dirAcc[1], d[1])
         IN  /\ dirAcc' = <<acc>>
             /\ direction' = acc
             /\ dirOut' = IF acc # direction THEN <<acc>> ELSE <<>>

pauseFilterAnyKey(key) == TRUE

\* filter((event) => event.key === ' ') of pause$.
pauseFilter(key) == key = " "

\* What a keydown event is: the pause key, a direction key, or a key neither
\* stream recognizes.
keyKind(key) ==
  IF key = " " THEN "pause"
  ELSE IF key \in DOMAIN DIRECTIONS THEN "direction" ELSE "ignored"

\* What a click event is: a click on a directional button, or on another
\* element.
clickKind(id) ==
  IF id \in DOMAIN DIRECTIONS_BUTTON THEN "direction" ELSE "ignored"

\* One keydown event: pause$ toggles on ' ', direction$ maps the key through
\* DIRECTIONS.
KeyDown(key) ==
  /\ PAUSE' = IF pauseFilter(key) THEN ~PAUSE ELSE PAUSE
  /\ directionInput(IF key \in DOMAIN DIRECTIONS THEN <<DIRECTIONS[key]>> ELSE <<>>)
  /\ lastEvent' = keyKind(key)
  /\ sceneLog' = <<>>
  /\ rendered' = <<>>
  /\ UNCHANGED <<SPEED, timers, srcCount, snakeLength, score, snake, apples,
                 emitted, scene, running, gameOverCalls, ticks, unpausedTicks,
                 moves, eaten, tickSrc>>

\* One click event on an element with the given id: direction$ maps a non-empty
\* id through DIRECTIONS_BUTTON.
Click(id) ==
  /\ directionInput(IF id # "" /\ id \in DOMAIN DIRECTIONS_BUTTON
                      THEN <<DIRECTIONS_BUTTON[id]>> ELSE <<>>)
  /\ lastEvent' = clickKind(id)
  /\ sceneLog' = <<>>
  /\ rendered' = <<>>
  /\ UNCHANGED <<SPEED, timers, srcCount, PAUSE, snakeLength, score, snake,
                 apples, emitted, scene, running, gameOverCalls, ticks,
                 unpausedTicks, moves, eaten, tickSrc>>

Next ==
  \/ \E t \in timers : Tick(t)
  \/ Frame
  \/ \E key \in Keys : KeyDown(key)
  \/ \E id \in ElementIds : Click(id)

Spec == Init /\ [][Next]_vars

\* The runs that start with the food at (1, 1), explored one tick further.
InitLong == Init /\ apples = {Point2D(1, 1)}

NextLong ==
  \/ \E t \in timers : TickWithin(t, MaxTicks + 1)
  \/ Frame
  \/ \E key \in Keys : KeyDown(key)
  \/ \E id \in ElementIds : Click(id)

SpecLong == InitLong /\ [][NextLong]_vars

\* ================================================================ claims

\* Direction of travel: the step that took the second cell to the head.
travel == Point2D(snake[1].x - snake[2].x, snake[1].y - snake[2].y)

\* C1: the scene an animation frame samples is the snake of the last completed
\* tick, the food set eat produced for that snake, and a score counting every
\* consumption up to that tick.
C1_SampleIsOneTick ==
  (lastEvent = "frame" /\ scene # <<>>)
    => scene[1] = Scene(snake, apples, eaten * POINTS_PER_APPLE)

\* C2: while the game runs, after N consumptions (a consumption on the first
\* tick included) the score of the scene is N * POINTS_PER_APPLE.
C2_ScoreCountsEveryApple ==
  (running /\ scene # <<>>) => scene[1].score = eaten * POINTS_PER_APPLE

\* C3: once the render loop has terminated, no step changes snake, food, score,
\* target length or tick interval.
C3_TornDownAfterGameOver ==
  [][(~running) => /\ snake' = snake
                   /\ apples' = apples
                   /\ score' = score
                   /\ snakeLength' = snakeLength
                   /\ SPEED' = SPEED]_vars

\* C4: renderScene never gets a game-over scene; renderGameOver is called at
\* most once, by the first frame whose latest scene is a game-over scene, and
\* by no other step; after it no frame is sampled and nothing is rendered.
C4_RenderLoop ==
  [][/\ rendered' # <<>> => ~isGameOver(rendered'[1])
     /\ gameOverCalls' <= 1
     /\ gameOverCalls' # gameOverCalls
          => (lastEvent' = "frame" /\ scene # <<>> /\ isGameOver(scene[1]))
     /\ (lastEvent' = "frame" /\ scene # <<>> /\ isGameOver(scene[1]))
          => (gameOverCalls' = 1 /\ ~running')
     /\ (lastEvent' = "frame" /\ scene # <<>> /\ ~isGameOver(scene[1]))
          => (rendered' = scene /\ running')
     /\ (~running)
          => (lastEvent' # "frame" /\ rendered' = <<>> /\ ~running'
              /\ gameOverCalls' = gameOverCalls)]_vars

C4_Witness ==
  gameOverCalls = 1 /\ ~running /\ lastEvent = "tick" /\ ticks >= 2

\* C5: direction$ never emits the exact opposite of its preceding emission,
\* the initial direction being the emission that precedes the first input.
C5_NoReversalEmitted ==
  [][dirOut' # <<>> => vec(dirOut'[1]) # Opposite(direction)]_vars

\* C6: a tick that moves the snake after an earlier move never uses the reverse
\* of the direction of travel, so the new head is not the old second cell.
C6_NoReversalMoved ==
  [][(lastEvent' = "tick" /\ snake' # snake /\ moves >= 1)
       => (vec(direction) # Opposite(travel) /\ snake'[1] # snake[2])]_vars

\* C7: a tick delivered while the pause flag is true changes neither snake, food,
\* score, target length, tick interval nor the latest scene; a frame sampled
\* while paused renders that scene and leaves the render loop running; toggling
\* pause leaves the render loop as it is.
C7_PauseFreezesSimulationOnly ==
  [][/\ (PAUSE /\ lastEvent' = "tick")
          => /\ snake' = snake
             /\ apples' = apples
             /\ score' = score
             /\ snakeLength' = snakeLength
             /\ SPEED' = SPEED
             /\ timers' = timers
             /\ (scene # <<>> => scene' = scene)
     /\ (PAUSE /\ lastEvent' = "frame" /\ scene # <<>> /\ ~isGameOver(scene[1]))
          => (rendered' = scene /\ running')
     /\ PAUSE' # PAUSE => running' = running]_vars

C7_Witness ==
  /\ PAUSE
  /\ lastEvent = "frame"
  /\ rendered = scene
  /\ rendered # <<>>
  /\ moves >= 1
  /\ ticks >= moves + 2

\* C8: at most one interval source is live, it is the newest one and runs at
\* the current interval, and every tick was delivered by the source that was
\* the newest when it fired.
C8_OneTickSource ==
  /\ Cardinality(timers) <= 1
  /\ \A t \in timers : t.id = srcCount /\ t.period = SPEED
  /\ tickSrc.id = tickSrc.newest

C8_Witness ==
  srcCount >= 2 /\ tickSrc.id >= 2 /\ lastEvent = "tick"

\* C9: a tick applies move once to the latest direction, target length and
\* pause flag; no other event changes the snake; the ticks that changed the
\* snake are the ticks delivered while not paused.
C9_TickMovesOnceWithLatest ==
  [][/\ lastEvent' = "tick"
          => (snake' = move(snake, <<direction, snakeLength, PAUSE>>)
              /\ ticks' = ticks + 1)
     /\ lastEvent' # "tick" => (snake' = snake /\ ticks' = ticks)
     /\ moves' = unpausedTicks']_vars

C9_Witness ==
  /\ lastEvent = "tick"
  /\ moves = 2
  /\ ticks = 3
  /\ direction # INITIAL_DIRECTION
  /\ travel = vec(direction)

\* C10: the target length is the initial length plus the score (length step =
\* POINTS_PER_APPLE), in every state.
C10_LengthFollowsScore ==
  snakeLength = SNAKE_LENGTH + score

\* C11: the interval stays positive and at or above the minimum and never
\* increases; every consumption replaces it by incrementSnakeSpeed(interval),
\* strictly smaller above the floor and equal at the floor; no other step
\* changes it.
C11_IntervalStepsDown ==
  [][/\ SPEED' > 0
     /\ SPEED' >= MIN_SPEED
     /\ SPEED' <= SPEED
     /\ eaten' # eaten
          => /\ SPEED' = incrementSnakeSpeed(SPEED)
             /\ SPEED > MIN_SPEED => SPEED' < SPEED
             /\ SPEED = MIN_SPEED => SPEED' = MIN_SPEED
     /\ eaten' = eaten => SPEED' = SPEED]_vars

\* C12: scene$ has emitted nothing before the first tick, so frames before it
\* render nothing and leave the loop running; the first tick emits exactly one
\* scene, the complete one; every rendered scene is the latest scene, with a
\* snake, a food set and a score.
C12_NoPartialScene ==
  /\ ticks = 0
       => (scene = <<>> /\ sceneLog = <<>> /\ rendered = <<>>
           /\ gameOverCalls = 0 /\ running)
  /\ (ticks = 1 /\ lastEvent = "tick")
       => (sceneLog = <<Scene(snake, apples, score)>> /\ scene = sceneLog)
  /\ rendered # <<>>
       => /\ ticks >= 1
          /\ rendered = scene
          /\ Len(rendered[1].snake) >= 1
          /\ rendered[1].apples \subseteq Cells
          /\ rendered[1].score \in Nat

C12_Witness ==
  ticks = 0 /\ lastEvent = "frame" /\ rendered = <<>> /\ running

\* C13: the food set always has APPLE_COUNT cells and in every scene no food
\* cell is a snake cell; a tick whose head lands on food replaces that cell by
\* one cell that is neither on the snake nor on the remaining food; every
\* other step leaves the food set unchanged.
C13_FoodSet ==
  [][/\ Cardinality(apples') = APPLE_COUNT
     /\ scene' # <<>>
          => /\ Cardinality(scene'[1].apples) = APPLE_COUNT
             /\ scene'[1].apples \cap Range(scene'[1].snake) = {}
     /\ (ticks' # ticks /\ snake'[1] \in apples)
          => \E r \in (Cells \ Range(snake')) \ (apples \ {snake'[1]}) :
               apples' = (apples \ {snake'[1]}) \cup {r}
     /\ (ticks' # ticks /\ snake'[1] \notin apples) => apples' = apples
     /\ ticks' = ticks => apples' = apples]_vars

C13_Witness ==
  /\ eaten = 2
  /\ lastEvent = "frame"
  /\ rendered # <<>>
  /\ rendered[1].apples = apples

\* C14: once the latest scene is a game-over scene it stays one: no tick or
\* input replaces it by a scene that is not, before or after it is sampled.
C14_GameOverStaysUntilSampled ==
  [][(scene # <<>> /\ isGameOver(scene[1]))
       => (scene' # <<>> /\ isGameOver(scene'[1]))]_vars

\* C15: the pause key toggles the pause flag, which starts false, and leaves
\* the direction alone; a direction key or button leaves the pause flag alone;
\* an unrecognized key or click changes neither; only the pause key changes
\* the flag and only a direction input the direction; no input changes snake,
\* food, score, target length, tick interval or scene.
C15_InputsIndependent ==
  [][/\ lastEvent = "init" => PAUSE = FALSE
     /\ lastEvent' = "pause"
          => (PAUSE' = ~PAUSE /\ direction' = direction /\ dirAcc' = dirAcc
              /\ dirOut' = <<>>)
     /\ lastEvent' = "direction" => PAUSE' = PAUSE
     /\ lastEvent' = "ignored"
          => (PAUSE' = PAUSE /\ direction' = direction /\ dirAcc' = dirAcc
              /\ dirOut' = <<>>)
     /\ PAUSE' # PAUSE => lastEvent' = "pause"
     /\ direction' # direction => lastEvent' = "direction"
     /\ lastEvent' \in {"pause", "direction", "ignored"}
          => UNCHANGED <<snake, apples, score, snakeLength, SPEED, timers,
                         scene, running>>]_vars

C15_Witness ==
  /\ lastEvent = "pause"
  /\ PAUSE
  /\ vec(direction) = Point2D(-1, 0)
  /\ ticks >= 1

\* C16: direction$ never emits a direction equal, as a unit vector, to its
\* preceding emission.
C16_NoRepeatedDirection ==
  [][dirOut' # <<>> => vec(dirOut'[1]) # vec(direction)]_vars

\* C17: every rendered snake has at least SNAKE_LENGTH cells, at most the
\* target length, and no cell twice; no step shrinks the snake or grows it by
\* more than one cell.
C17_RenderedSnakeWellFormed ==
  [][/\ rendered' # <<>>
          => /\ Len(rendered'[1].snake) >= SNAKE_LENGTH
             /\ Len(rendered'[1].snake) <= snakeLength'
             /\ Cardinality(Range(rendered'[1].snake)) = Len(rendered'[1].snake)
     /\ Len(snake') >= Len(snake)
     /\ Len(snake') <= Len(snake) + 1]_vars

\* C18: every scene scene$ emits during a tick is the snapshot after that
\* tick: the new snake with the food set eat produced for it and the new score.
C18_EveryEmissionConsistent ==
  \A i \in DOMAIN sceneLog : sceneLog[i] = Scene(snake, apples, score)

====
